---- MODULE Spec2Model ----
(***************************************************************************)
(* YehagerBet betting backend (src/main.py): the datastore collections,    *)
(* application startup (indexes and match seeding) and the HTTP handlers,  *)
(* each handler split at its datastore calls so that concurrent requests   *)
(* interleave exactly where the code lets them.                            *)
(*                                                                         *)
(* Money: Python floats are modelled as exact decimal amounts counted in   *)
(* thousandths (1000 = 1.00), so that round(x, 2) is a real rounding to a  *)
(* multiple of 10.  A selection's odds are counted in tenths (15 = 1.5).  *)
(***************************************************************************)
EXTENDS Integers, Sequences, FiniteSets, TLC

\* ------------------------------------------------------------------ bounds
\* Requests received over a behaviour (request slots, filled in order).
MaxReq == 3
\* Times the application is started over a behaviour.
MaxProc == 2
\* Requests the server handles at the same time (its worker pool).
MaxInFlight == 2
\* Longest selections list a PlaceBet request carries.
MaxSel == 2

\* ------------------------------------------------------- program constants
\* A user_id string that ObjectId() rejects; 1, 2, ... are well-formed ids.
MalformedId == 0
\* tx["reference"] = None
NullRef == 0
\* status codes
OK == 200
BadRequest == 400
NotFound == 404
Unprocessable == 422
ServerError == 500
\* odds are compared with 1.0
OddsOne == 10
\* round(x, 2): two decimals = multiples of 10 thousandths
Cent == 10
\* default limit of list_transactions
DefaultLimit == 20

\* ------------------------------------------------------------ input domains
Phones == {"0911", "0922"}
Names == {"Abebe"}
UserIds == {MalformedId, 1, 2}
AmountDomain == {0, 10000, 25000}
StakeDomain == {0, 4, 25000}
OddsDomain == {10, 15, 20}
Limits == {1, DefaultLimit}

Reqs == 1..MaxReq
Procs == 1..MaxProc

VARIABLES
    dbUp,               \* db is not None
    phoneUnique,        \* the unique index on user.phone exists
    user,               \* db["user"]: sequence of documents, _id = position
    bet,                \* db["bet"]
    wallettransaction,  \* db["wallettransaction"], in insertion order
    match,              \* db["match"]
    ppc,                \* each application process's position in on_startup
    pc,                 \* each request's position in its handler
    req,                \* each in-flight request's payload
    loc,                \* each in-flight request's local variables
    resp,               \* each finished request's response
    pre                 \* the collections as the in-flight request found them

vars == <<dbUp, phoneUnique, user, bet, wallettransaction, match, ppc, pc, req, loc, resp, pre>>

None == [none |-> TRUE]

\* ------------------------------------------------------------------ helpers
RECURSIVE SeqsUpTo(_, _)
SeqsUpTo(S, n) ==
    IF n = 0 THEN {<<>>}
    ELSE LET shorter == SeqsUpTo(S, n - 1)
         IN shorter \cup {Append(s, x) : s \in {t \in shorter : Len(t) = n - 1}, x \in S}

RECURSIVE SumAmounts(_)
SumAmounts(rows) ==
    IF rows = <<>> THEN 0 ELSE rows[1].amount + SumAmounts(Tail(rows))

RowsOf(rows, uid) == SelectSeq(rows, LAMBDA t : t.user_id = uid)

Min(a, b) == IF a < b THEN a ELSE b

\* round(x, 2) of the exact value n/d (d > 0), in thousandths: the nearest
\* multiple of Cent, a tie going to the even hundredth as Python's round does.
Round2(n, d) ==
    LET step == Cent * d
        q == n \div step
        r == n % step
    IN IF 2 * r < step THEN Cent * q
       ELSE IF 2 * r > step THEN Cent * (q + 1)
       ELSE IF q % 2 = 0 THEN Cent * q ELSE Cent * (q + 1)

Collections == [user |-> user, bet |-> bet, wallettransaction |-> wallettransaction, match |-> match]

NoLoc == [balance |-> 0, new_balance |-> 0, potential_return |-> 0, bet_id |-> 0]
NoResp == [status |-> 0, detail |-> "", body |-> None]
Reject(status, detail) == [status |-> status, detail |-> detail, body |-> None]
Reply(body) == [status |-> OK, detail |-> "", body |-> body]
DbDown == Reject(ServerError, "Database not available")

Init ==
    /\ dbUp \in BOOLEAN
    /\ phoneUnique = FALSE
    /\ user = <<>>
    /\ bet = <<>>
    /\ wallettransaction = <<>>
    /\ match = <<>>
    /\ ppc = [p \in Procs |-> [at |-> "idle", i |-> 0]]
    /\ pc = [r \in Reqs |-> "idle"]
    /\ req = [r \in Reqs |-> None]
    /\ loc = [r \in Reqs |-> NoLoc]
    /\ resp = [r \in Reqs |-> NoResp]
    /\ pre = [r \in Reqs |-> None]

\* A response leaves before anything else is scheduled: returning touches no
\* shared state, so no interleaving of datastore calls is lost.
Scheduled == \A q \in Reqs : pc[q] # "responded"

\* ----------------------------------------------------------------- startup
\* The three sample documents of seed_matches, in insertion order (their odds
\* in hundredths; no handler computes with them).
Samples ==
    << [sport |-> "football", league |-> "Ethiopian Premier League",
        home_team |-> "Saint George", away_team |-> "Buna", status |-> "scheduled",
        odds |-> [home_win |-> 185, draw |-> 320, away_win |-> 390]],
       [sport |-> "football", league |-> "Ethiopian Premier League",
        home_team |-> "Fasil Kenema", away_team |-> "Wolaita Dicha", status |-> "scheduled",
        odds |-> [home_win |-> 210, draw |-> 300, away_win |-> 340]],
       [sport |-> "basketball", league |-> "Ethiopia Cup",
        home_team |-> "Addis Lions", away_team |-> "Hawassa Hawks", status |-> "scheduled",
        odds |-> [home_win |-> 170, draw |-> 0, away_win |-> 220]] >>

\* Faulty variant: the emptiness test is left out.
SeedAlways(count) == TRUE

\* seed_matches goes on to insert only when count_documents({}) > 0 is false.
SeedNeeded(count) == ~(count > 0)

ProcIdle(p) == ppc[p].at = "idle"
ProcDone(p) == ppc[p].at = "done"
ProcBusy(p) == ~ProcIdle(p) /\ ~ProcDone(p)
Serving == \E p \in Procs : ProcDone(p)

\* on_startup begins: ensure_indexes() (a no-op when db is None).
EnsureIndexes(p) ==
    /\ ProcIdle(p)
    /\ Scheduled
    /\ \A q \in Procs : q < p => ~ProcIdle(q)
    /\ phoneUnique' = (dbUp \/ phoneUnique)
    /\ ppc' = [ppc EXCEPT ![p] = [at |-> "seed", i |-> 0]]
    /\ UNCHANGED <<dbUp, user, bet, wallettransaction, match, pc, req, loc, resp, pre>>

\* seed_matches up to its count_documents call.
SeedCount(p) ==
    /\ ppc[p].at = "seed"
    /\ Scheduled
    /\ ppc' = [ppc EXCEPT ![p] =
                 IF dbUp /\ SeedNeeded(Len(match))
                 THEN [at |-> "insert", i |-> 1]
                 ELSE [at |-> "done", i |-> 0]]
    /\ UNCHANGED <<dbUp, phoneUnique, user, bet, wallettransaction, match, pc, req, loc, resp, pre>>

\* One turn of the loop "for m in samples: db["match"].insert_one(m)".
SeedInsert(p) ==
    /\ ppc[p].at = "insert"
    /\ Scheduled
    /\ match' = Append(match, Samples[ppc[p].i])
    /\ ppc' = [ppc EXCEPT ![p] =
                 IF ppc[p].i < Len(Samples)
                 THEN [at |-> "insert", i |-> ppc[p].i + 1]
                 ELSE [at |-> "done", i |-> 0]]
    /\ UNCHANGED <<dbUp, phoneUnique, user, bet, wallettransaction, pc, req, loc, resp, pre>>

\* ---------------------------------------------------------------- requests
\* The response is sent and the request's frame is gone.
Return(r) ==
    /\ pc[r] = "responded"
    /\ pc' = [pc EXCEPT ![r] = "done"]
    /\ req' = [req EXCEPT ![r] = None]
    /\ resp' = [resp EXCEPT ![r] = NoResp]
    /\ pre' = [pre EXCEPT ![r] = None]
    /\ UNCHANGED <<dbUp, phoneUnique, user, bet, wallettransaction, match, ppc, loc>>

\* A request arrives in the next free slot once some process serves.
Arrives(r) ==
    /\ Serving
    /\ Scheduled
    /\ Cardinality({q \in Reqs : pc[q] \notin {"idle", "done"}}) < MaxInFlight
    /\ pc[r] = "idle"
    /\ \A q \in Reqs : q < r => pc[q] # "idle"

\* The handler returns (or raises) rs at this step; the request's payload, its
\* response and the collections as it found them stay in view until Return.
Finish(r, p, rs) ==
    /\ pc' = [pc EXCEPT ![r] = "responded"]
    /\ req' = [req EXCEPT ![r] = p]
    /\ resp' = [resp EXCEPT ![r] = rs]
    /\ loc' = [loc EXCEPT ![r] = NoLoc]
    /\ pre' = [pre EXCEPT ![r] = IF pc[r] = "idle" THEN Collections ELSE pre[r]]

\* The request goes on to step at with locals l.
Goto(r, p, at, l) ==
    /\ pc' = [pc EXCEPT ![r] = at]
    /\ req' = [req EXCEPT ![r] = p]
    /\ loc' = [loc EXCEPT ![r] = l]
    /\ pre' = [pre EXCEPT ![r] = IF pc[r] = "idle" THEN Collections ELSE pre[r]]
    /\ UNCHANGED resp

PhoneTaken(users, phone) == \E i \in DOMAIN users : users[i].phone = phone

\* find_one({"phone": phone}): the first matching document's position, 0 for None.
FindByPhone(users, phone) ==
    IF PhoneTaken(users, phone)
    THEN CHOOSE i \in DOMAIN users :
            /\ users[i].phone = phone
            /\ \A j \in DOMAIN users : users[j].phone = phone => i <= j
    ELSE 0

UserBody(uid, u) == [user_id |-> uid, name |-> u.name, phone |-> u.phone, balance |-> u.balance]

\* Faulty variant: the existence lookup is left out.
RegisterWithoutLookup(p) == IF ~dbUp THEN DbDown ELSE NoResp

\* register_user up to the existence lookup.
RegisterFind(p) ==
    IF ~dbUp THEN DbDown
    ELSE IF PhoneTaken(user, p.phone) THEN Reject(BadRequest, "Phone already registered")
    ELSE NoResp

NewUser(p) == [name |-> p.name, phone |-> p.phone, balance |-> 0, is_active |-> TRUE]

\* Faulty variant: the collection has no unique index.
NoUniqueIndex(users, phone) == FALSE

\* insert_one raises DuplicateKeyError under the unique index on phone.
DuplicateKey(users, phone) == phoneUnique /\ PhoneTaken(users, phone)

Register(r) ==
    /\ Arrives(r)
    /\ \E name \in Names, phone \in Phones :
        LET p == [kind |-> "register", name |-> name, phone |-> phone]
            rs == RegisterFind(p)
        IN IF rs = NoResp THEN Goto(r, p, "register_insert", NoLoc) ELSE Finish(r, p, rs)
    /\ UNCHANGED <<dbUp, phoneUnique, user, bet, wallettransaction, match, ppc>>

RegisterInsert(r) ==
    /\ pc[r] = "register_insert"
    /\ Scheduled
    /\ IF DuplicateKey(user, req[r].phone)
       THEN /\ Finish(r, req[r], Reject(ServerError, "Internal Server Error"))
            /\ UNCHANGED user
       ELSE /\ user' = Append(user, NewUser(req[r]))
            /\ Finish(r, req[r], Reply(UserBody(Len(user) + 1, NewUser(req[r]))))
    /\ UNCHANGED <<dbUp, phoneUnique, bet, wallettransaction, match, ppc>>

\* login_user
LoginResponse(p) ==
    IF ~dbUp THEN DbDown
    ELSE IF ~PhoneTaken(user, p.phone) THEN Reject(NotFound, "User not found")
    ELSE LET i == FindByPhone(user, p.phone) IN Reply(UserBody(i, user[i]))

Login(r) ==
    /\ Arrives(r)
    /\ \E phone \in Phones :
        LET p == [kind |-> "login", phone |-> phone]
        IN Finish(r, p, LoginResponse(p))
    /\ UNCHANGED <<dbUp, phoneUnique, user, bet, wallettransaction, match, ppc>>

\* get_user
GetUserResponse(p) ==
    IF ~dbUp THEN DbDown
    ELSE IF p.user_id = MalformedId THEN Reject(BadRequest, "Invalid user id")
    ELSE IF p.user_id \notin DOMAIN user THEN Reject(NotFound, "User not found")
    ELSE Reply(UserBody(p.user_id, user[p.user_id]))

GetUser(r) ==
    /\ Arrives(r)
    /\ \E uid \in UserIds :
        LET p == [kind |-> "get_user", user_id |-> uid]
        IN Finish(r, p, GetUserResponse(p))
    /\ UNCHANGED <<dbUp, phoneUnique, user, bet, wallettransaction, match, ppc>>

\* ------------------------------------------------------------------ wallet
\* TopupRequest: amount: float = Field(..., gt=0).  A body that fails the
\* request model is answered 422 before the handler is called.
TopupRequestValid(p) == p.amount > 0

\* topup_wallet up to the user lookup.
TopupFind(p) ==
    IF ~dbUp THEN DbDown
    ELSE IF p.user_id = MalformedId THEN Reject(BadRequest, "Invalid user id")
    ELSE IF p.user_id \notin DOMAIN user THEN Reject(NotFound, "User not found")
    ELSE NoResp

\* Faulty variant: the balance read is not added.
TopupOverwrites(balance, amount) == amount

\* new_balance = float(user.get("balance", 0.0)) + float(payload.amount)
TopupNewBalance(balance, amount) == balance + amount

\* update_one({"_id": oid}, {"$set": {"balance": new_balance, ...}})
SetBalance(users, oid, new_balance) ==
    [users EXCEPT ![oid].balance = new_balance]

TopupTx(p, new_balance) ==
    [user_id |-> p.user_id, type |-> "topup", amount |-> p.amount,
     balance_after |-> new_balance, reference |-> NullRef]

TopUp(r) ==
    /\ Arrives(r)
    /\ \E uid \in UserIds, amount \in AmountDomain :
        LET p == [kind |-> "topup", user_id |-> uid, amount |-> amount]
            rs == IF TopupRequestValid(p) THEN TopupFind(p)
                  ELSE Reject(Unprocessable, "Validation error")
        IN IF rs = NoResp
           THEN LET balance == user[uid].balance
                IN Goto(r, p, "topup_update",
                        [NoLoc EXCEPT !.balance = balance,
                                      !.new_balance = TopupNewBalance(balance, amount)])
           ELSE Finish(r, p, rs)
    /\ UNCHANGED <<dbUp, phoneUnique, user, bet, wallettransaction, match, ppc>>

\* Faulty variant: the update increments the stored balance ($inc) instead of setting
\* the value computed from the balance read.
TopUpUpdateAtomic(r) ==
    /\ pc[r] = "topup_update"
    /\ Scheduled
    /\ user' = [user EXCEPT ![req[r].user_id].balance = @ + req[r].amount]
    /\ Goto(r, req[r], "topup_insert", loc[r])
    /\ UNCHANGED <<dbUp, phoneUnique, bet, wallettransaction, match, ppc>>

TopUpUpdate(r) ==
    /\ pc[r] = "topup_update"
    /\ Scheduled
    /\ user' = SetBalance(user, req[r].user_id, loc[r].new_balance)
    /\ Goto(r, req[r], "topup_insert", loc[r])
    /\ UNCHANGED <<dbUp, phoneUnique, bet, wallettransaction, match, ppc>>

TopUpInsert(r) ==
    /\ pc[r] = "topup_insert"
    /\ Scheduled
    /\ wallettransaction' = Append(wallettransaction, TopupTx(req[r], loc[r].new_balance))
    /\ Finish(r, req[r], Reply([balance |-> loc[r].new_balance]))
    /\ UNCHANGED <<dbUp, phoneUnique, user, bet, match, ppc>>

\* list_transactions: the rows of the user, cut to limit.  Documents carry no
\* timestamps here, so the response holds how many rows come back.
ListTransactionsResponse(p) ==
    IF ~dbUp THEN DbDown
    ELSE Reply([items |-> Min(p.limit, Len(RowsOf(wallettransaction, p.user_id)))])

ListTransactions(r) ==
    /\ Arrives(r)
    /\ \E uid \in UserIds, limit \in Limits :
        LET p == [kind |-> "list_transactions", user_id |-> uid, limit |-> limit]
        IN Finish(r, p, ListTransactionsResponse(p))
    /\ UNCHANGED <<dbUp, phoneUnique, user, bet, wallettransaction, match, ppc>>

\* list_matches
ListMatchesResponse ==
    IF ~dbUp THEN DbDown ELSE Reply([items |-> Len(match)])

ListMatches(r) ==
    /\ Arrives(r)
    /\ Finish(r, [kind |-> "list_matches"], ListMatchesResponse)
    /\ UNCHANGED <<dbUp, phoneUnique, user, bet, wallettransaction, match, ppc>>

\* list_bets
ListBetsResponse(p) ==
    IF ~dbUp THEN DbDown ELSE Reply([items |-> Len(RowsOf(bet, p.user_id))])

ListBets(r) ==
    /\ Arrives(r)
    /\ \E uid \in UserIds :
        LET p == [kind |-> "list_bets", user_id |-> uid]
        IN Finish(r, p, ListBetsResponse(p))
    /\ UNCHANGED <<dbUp, phoneUnique, user, bet, wallettransaction, match, ppc>>

\* -------------------------------------------------------------------- bets
Selection(o) == [match_id |-> 1, market |-> "home_win", odds |-> o, description |-> "pick"]
SelectionLists == {[i \in DOMAIN os |-> Selection(os[i])] : os \in SeqsUpTo(OddsDomain, MaxSel)}

\* PlaceBetRequest: stake: float = Field(..., gt=0)
PlaceBetRequestValid(p) == p.stake > 0

\* Faulty variant: odds of exactly 1.0 pass.
OddsAtLeastOne(o) == ~(o < OddsOne)

\* if s.odds <= 1.0: raise
OddsValid(o) == ~(o <= OddsOne)

\* The loop over payload.selections: total_odds as the fraction num/den, and
\* whether the loop ran to its end (ok) or raised at an invalid selection.
RECURSIVE OddsLoop(_, _)
OddsLoop(sels, total) ==
    IF sels = <<>> THEN [ok |-> TRUE, num |-> total.num, den |-> total.den]
    ELSE IF ~OddsValid(sels[1].odds) THEN [ok |-> FALSE, num |-> total.num, den |-> total.den]
    ELSE OddsLoop(Tail(sels), [num |-> total.num * sels[1].odds, den |-> total.den * OddsOne])

TotalOdds(sels) == OddsLoop(sels, [num |-> 1, den |-> 1])

\* potential_return = round(float(payload.stake) * total_odds, 2)
PotentialReturn(stake, total) == Round2(stake * total.num, total.den)

\* Faulty variant: only a negative balance is refused.
OnlyNegativeRefused(balance, stake) == balance < 0

\* if balance < payload.stake: raise
InsufficientBalance(balance, stake) == balance < stake

\* Faulty variant: the difference is not rounded.
BetNewBalanceUnrounded(balance, stake) == balance - stake

\* new_balance = round(balance - float(payload.stake), 2)
BetNewBalance(balance, stake) == Round2(balance - stake, 1)

\* Faulty variant: the user id is parsed before db is looked at.
PlaceBetCheckIdFirst(p) ==
    IF p.user_id = MalformedId THEN Reject(BadRequest, "Invalid user id")
    ELSE IF ~dbUp THEN DbDown
    ELSE IF p.user_id \notin DOMAIN user THEN Reject(NotFound, "User not found")
    ELSE IF p.selections = <<>> THEN Reject(BadRequest, "No selections provided")
    ELSE IF ~TotalOdds(p.selections).ok THEN Reject(BadRequest, "Invalid odds in selection")
    ELSE IF InsufficientBalance(user[p.user_id].balance, p.stake)
         THEN Reject(BadRequest, "Insufficient balance")
    ELSE NoResp

\* place_bet up to the balance check.
PlaceBetCheck(p) ==
    IF ~dbUp THEN DbDown
    ELSE IF p.user_id = MalformedId THEN Reject(BadRequest, "Invalid user id")
    ELSE IF p.user_id \notin DOMAIN user THEN Reject(NotFound, "User not found")
    ELSE IF p.selections = <<>> THEN Reject(BadRequest, "No selections provided")
    ELSE IF ~TotalOdds(p.selections).ok THEN Reject(BadRequest, "Invalid odds in selection")
    ELSE IF InsufficientBalance(user[p.user_id].balance, p.stake)
         THEN Reject(BadRequest, "Insufficient balance")
    ELSE NoResp

BetDoc(p, potential_return) ==
    [user_id |-> p.user_id, stake |-> p.stake, selections |-> p.selections,
     potential_return |-> potential_return, status |-> "pending"]

BetTx(p, new_balance, bet_id) ==
    [user_id |-> p.user_id, type |-> "bet_place", amount |-> 0 - p.stake,
     balance_after |-> new_balance, reference |-> bet_id]

PlaceBet(r) ==
    /\ Arrives(r)
    /\ \E uid \in UserIds, stake \in StakeDomain, sels \in SelectionLists :
        LET p == [kind |-> "place_bet", user_id |-> uid, stake |-> stake, selections |-> sels]
            rs == IF PlaceBetRequestValid(p) THEN PlaceBetCheck(p)
                  ELSE Reject(Unprocessable, "Validation error")
        IN IF rs = NoResp
           THEN LET balance == user[uid].balance
                IN Goto(r, p, "bet_update",
                        [NoLoc EXCEPT !.balance = balance,
                                      !.new_balance = BetNewBalance(balance, stake),
                                      !.potential_return = PotentialReturn(stake, TotalOdds(sels))])
           ELSE Finish(r, p, rs)
    /\ UNCHANGED <<dbUp, phoneUnique, user, bet, wallettransaction, match, ppc>>

PlaceBetUpdate(r) ==
    /\ pc[r] = "bet_update"
    /\ Scheduled
    /\ user' = SetBalance(user, req[r].user_id, loc[r].new_balance)
    /\ Goto(r, req[r], "bet_insert", loc[r])
    /\ UNCHANGED <<dbUp, phoneUnique, bet, wallettransaction, match, ppc>>

PlaceBetInsertBet(r) ==
    /\ pc[r] = "bet_insert"
    /\ Scheduled
    /\ bet' = Append(bet, BetDoc(req[r], loc[r].potential_return))
    /\ Goto(r, req[r], "bet_insert_tx", [loc[r] EXCEPT !.bet_id = Len(bet) + 1])
    /\ UNCHANGED <<dbUp, phoneUnique, user, wallettransaction, match, ppc>>

PlaceBetInsertTx(r) ==
    /\ pc[r] = "bet_insert_tx"
    /\ Scheduled
    /\ wallettransaction' =
          Append(wallettransaction, BetTx(req[r], loc[r].new_balance, loc[r].bet_id))
    /\ Finish(r, req[r], Reply([bet_id |-> loc[r].bet_id,
                                potential_return |-> loc[r].potential_return,
                                balance |-> loc[r].new_balance]))
    /\ UNCHANGED <<dbUp, phoneUnique, user, bet, match, ppc>>

\* ------------------------------------------------------------ specifications
ProcStep(p) == EnsureIndexes(p) \/ SeedCount(p) \/ SeedInsert(p)

ReqStep(r) ==
    \/ Register(r) \/ RegisterInsert(r)
    \/ Login(r) \/ GetUser(r)
    \/ TopUp(r) \/ TopUpUpdate(r) \/ TopUpInsert(r)
    \/ ListTransactions(r) \/ ListMatches(r) \/ ListBets(r)
    \/ PlaceBet(r) \/ PlaceBetUpdate(r) \/ PlaceBetInsertBet(r) \/ PlaceBetInsertTx(r)
    \/ Return(r)

\* One application process starts, then serves requests that interleave at
\* every datastore call.
Next == ProcStep(1) \/ (\E r \in Reqs : ReqStep(r))

Spec == Init /\ [][Next]_vars

ReqBusy(r) == pc[r] \notin {"idle", "done"}

\* One after another: the application is started (and restarted) and requests
\* are handled, each step taken only while nothing else is under way.
ProcAlone(p) == (\A q \in Procs \ {p} : ~ProcBusy(q)) /\ (\A r \in Reqs : ~ReqBusy(r))
ReqAlone(r) == (\A q \in Reqs \ {r} : ~ReqBusy(q)) /\ (\A p \in Procs : ~ProcBusy(p))

SeqNext ==
    \/ \E p \in Procs :
          \/ ProcAlone(p) /\ EnsureIndexes(p)
          \/ ProcAlone(p) /\ SeedCount(p)
          \/ ProcAlone(p) /\ SeedInsert(p)
    \/ \E r \in Reqs :
          \/ ReqAlone(r) /\ Register(r)
          \/ ReqAlone(r) /\ RegisterInsert(r)
          \/ ReqAlone(r) /\ Login(r)
          \/ ReqAlone(r) /\ GetUser(r)
          \/ ReqAlone(r) /\ TopUp(r)
          \/ ReqAlone(r) /\ TopUpUpdate(r)
          \/ ReqAlone(r) /\ TopUpInsert(r)
          \/ ReqAlone(r) /\ ListTransactions(r)
          \/ ReqAlone(r) /\ ListMatches(r)
          \/ ReqAlone(r) /\ ListBets(r)
          \/ ReqAlone(r) /\ PlaceBet(r)
          \/ ReqAlone(r) /\ PlaceBetUpdate(r)
          \/ ReqAlone(r) /\ PlaceBetInsertBet(r)
          \/ ReqAlone(r) /\ PlaceBetInsertTx(r)
          \/ ReqAlone(r) /\ Return(r)

SeqSpec == Init /\ [][SeqNext]_vars

\* ================================================================== claims
Responded(r, kind) == pc[r] = "responded" /\ req[r].kind = kind
Abs(x) == IF x < 0 THEN 0 - x ELSE x
\* v is a whole number of hundredths, and none is nearer to num/den.
NearestCent(v, num, den) == v % Cent = 0 /\ 2 * Abs(v * den - num) <= Cent * den
RECURSIVE OddsProduct(_)
OddsProduct(sels) == IF sels = <<>> THEN 1 ELSE sels[1].odds * OddsProduct(Tail(sels))
RECURSIVE TenTo(_)
TenTo(n) == IF n = 0 THEN 1 ELSE 10 * TenTo(n - 1)
\* No request is between reading the balance of uid and logging its change.
Mutates(r) == pc[r] \in {"topup_update", "topup_insert", "bet_update", "bet_insert", "bet_insert_tx"}
Quiet(uid) == \A r \in Reqs : Mutates(r) => req[r].user_id # uid
\* The request has written its new balance and not yet logged it.
Wrote(r) == pc[r] \in {"topup_insert", "bet_insert", "bet_insert_tx"}

\* C1: whenever no top-up or bet of a user is under way, the user's stored
\* balance equals the sum of the signed amounts of the user's ledger rows.
\* (The claim says so of every state; this is the claim on the states where it
\* has the best chance to hold.)
C1_BalanceIsLedgerSum ==
    \A uid \in DOMAIN user :
        Quiet(uid) => user[uid].balance = SumAmounts(RowsOf(wallettransaction, uid))

\* C2: a PlaceBet for an existing user whose selections hold odds <= 1.0, or
\* whose stake exceeds the balance, is answered 400 and leaves every collection
\* as it found it.
C2_RejectedBetHasNoEffect ==
    \A r \in Reqs :
        Responded(r, "place_bet") =>
            LET p == req[r]
                uid == p.user_id
            IN (/\ p.stake > 0
                /\ uid \in DOMAIN pre[r].user
                /\ \/ \E i \in DOMAIN p.selections : p.selections[i].odds <= OddsOne
                   \/ p.stake > pre[r].user[uid].balance)
               => /\ resp[r].status = BadRequest
                  /\ resp[r].body = None
                  /\ Collections = pre[r]

\* C2 witness: a bet the balance covers is refused for a later selection's odds.
C2_Witness ==
    \E r \in Reqs :
        /\ Responded(r, "place_bet")
        /\ resp[r] = Reject(BadRequest, "Invalid odds in selection")
        /\ Len(req[r].selections) = 2
        /\ req[r].selections[1].odds > OddsOne
        /\ req[r].stake <= user[req[r].user_id].balance
        /\ user[req[r].user_id].balance > 0

\* What a successful PlaceBet leaves behind, given the new balance nb and the
\* potential return pr it is said to compute.
BetEffects(r, nb, pr) ==
    LET p == req[r]
        uid == p.user_id
        id == Len(pre[r].bet) + 1
    IN /\ user = [pre[r].user EXCEPT ![uid].balance = nb]
       /\ bet = Append(pre[r].bet,
                       [user_id |-> uid, stake |-> p.stake, selections |-> p.selections,
                        potential_return |-> pr, status |-> "pending"])
       /\ wallettransaction = Append(pre[r].wallettransaction,
                       [user_id |-> uid, type |-> "bet_place", amount |-> 0 - p.stake,
                        balance_after |-> nb, reference |-> id])
       /\ match = pre[r].match
       /\ resp[r].body = [bet_id |-> id, potential_return |-> pr, balance |-> nb]

BetAccepted(r) ==
    LET p == req[r]
    IN /\ p.stake > 0
       /\ p.user_id \in DOMAIN pre[r].user
       /\ p.selections # <<>>
       /\ \A i \in DOMAIN p.selections : p.selections[i].odds > OddsOne
       /\ p.stake <= pre[r].user[p.user_id].balance

\* C3 as claimed: with no other request interleaved, a successful PlaceBet
\* sets the balance to exactly old balance - stake and potential_return to
\* exactly stake * product of the odds.
C3_Original ==
    \A r \in Reqs :
        Responded(r, "place_bet") /\ resp[r].status = OK =>
            LET exact == req[r].stake * OddsProduct(req[r].selections)
                den == TenTo(Len(req[r].selections))
            IN /\ exact % den = 0
               /\ BetEffects(r, pre[r].user[req[r].user_id].balance - req[r].stake,
                             exact \div den)

\* C3 amended: with no other request interleaved, a PlaceBet succeeds exactly
\* when the user exists, the selections are non-empty with all odds > 1.0 and
\* stake <= balance; it then sets the balance to old balance - stake rounded to
\* two decimals, inserts one pending Bet whose potential_return is stake * the
\* product of the odds rounded to two decimals, appends one bet_place row with
\* amount -stake, that balance and the new bet's id, and returns the three.
C3_BetPlaced ==
    \A r \in Reqs :
        Responded(r, "place_bet") /\ dbUp =>
            /\ resp[r].status = OK <=> BetAccepted(r)
            /\ resp[r].status = OK =>
                 LET nb == user[req[r].user_id].balance
                     pr == bet[Len(bet)].potential_return
                 IN /\ NearestCent(nb, pre[r].user[req[r].user_id].balance - req[r].stake, 1)
                    /\ NearestCent(pr, req[r].stake * OddsProduct(req[r].selections),
                                   TenTo(Len(req[r].selections)))
                    /\ BetEffects(r, nb, pr)

\* C3 witness: a bet of less than a hundredth on two selections has gone through.
C3_Witness ==
    \E r \in Reqs :
        /\ Responded(r, "place_bet")
        /\ resp[r].status = OK
        /\ Len(req[r].selections) = 2
        /\ req[r].stake % Cent # 0
        /\ resp[r].body.balance = pre[r].user[req[r].user_id].balance

\* The running totals of the amounts of rows: total after each row, in order.
RECURSIVE RunningTotals(_, _)
RunningTotals(rows, start) ==
    IF rows = <<>> THEN <<>>
    ELSE <<start + rows[1].amount>> \o RunningTotals(Tail(rows), start + rows[1].amount)

OnlyTopups(rows) == \A i \in DOMAIN rows : rows[i].type = "topup"

\* C4: with requests handled one after another, a TopUp with amount > 0 on an
\* existing user succeeds, sets the balance to the previous balance plus the
\* amount, appends one topup row with amount +amount, no reference and
\* balance_after = the new balance, and returns the new balance; and a user
\* whose ledger holds only top-ups has rows whose balance_after values are the
\* running totals of the amounts, the last of them the stored balance.
C4_TopUpsAccumulate ==
    /\ \A r \in Reqs :
          Responded(r, "topup") =>
             LET p == req[r]
                 uid == p.user_id
                 existing == uid \in DOMAIN pre[r].user
             IN /\ resp[r].status = OK <=> (p.amount > 0 /\ existing)
                /\ resp[r].status = OK =>
                     LET nb == pre[r].user[uid].balance + p.amount
                     IN /\ user = [pre[r].user EXCEPT ![uid].balance = nb]
                        /\ wallettransaction = Append(pre[r].wallettransaction,
                              [user_id |-> uid, type |-> "topup", amount |-> p.amount,
                               balance_after |-> nb, reference |-> NullRef])
                        /\ bet = pre[r].bet
                        /\ match = pre[r].match
                        /\ resp[r].body = [balance |-> nb]
    /\ \A uid \in DOMAIN user :
          LET rows == RowsOf(wallettransaction, uid)
          IN Quiet(uid) /\ OnlyTopups(rows) =>
                /\ [i \in DOMAIN rows |-> rows[i].balance_after] = RunningTotals(rows, 0)
                /\ user[uid].balance = SumAmounts(rows)

\* C4 witness: the second of two different top-ups of one user has returned.
C4_Witness ==
    \E r \in Reqs :
        /\ Responded(r, "topup")
        /\ resp[r].status = OK
        /\ LET rows == RowsOf(wallettransaction, req[r].user_id)
           IN /\ Len(rows) = 2
              /\ rows[1].amount # rows[2].amount
              /\ rows[2].balance_after = rows[1].amount + rows[2].amount

C6_PhoneUnique ==
    \A i, j \in DOMAIN user : user[i].phone = user[j].phone => i = j

\* C6 witness: two Registers for one phone both passed the lookup; the first
\* inserted and the second's insert was refused by the unique index.
C6_Witness ==
    \E r \in Reqs :
        /\ Responded(r, "register")
        /\ resp[r] = Reject(ServerError, "Internal Server Error")
        /\ \E i \in DOMAIN user : user[i].phone = req[r].phone

\* The request's body passes its request model (the Field(gt=0) constraints).
BodyValid(p) ==
    /\ p.kind = "topup" => p.amount > 0
    /\ p.kind = "place_bet" => p.stake > 0

\* C7 as claimed: with the datastore unavailable every handler's request is
\* answered 500, whatever else is wrong with its input.
C7_Original ==
    \A r \in Reqs :
        pc[r] = "responded" /\ ~dbUp => resp[r] = DbDown

\* C7 amended: with the datastore unavailable, every request whose body passes
\* its request model is answered 500 "Database not available" before the
\* handler validates anything (malformed user id, unknown user, empty
\* selections, bad odds, balance), and a request whose body fails the request
\* model (non-positive amount or stake) is answered 422 before the handler
\* runs; in both cases nothing is read from or written to the datastore.
C7_DbDownFirst ==
    /\ ~dbUp => Collections = [user |-> <<>>, bet |-> <<>>, wallettransaction |-> <<>>,
                               match |-> <<>>]
    /\ ~dbUp => ~phoneUnique
    /\ \A r \in Reqs :
          ~dbUp =>
            /\ ~Mutates(r) /\ pc[r] # "register_insert"
            /\ pc[r] = "responded" =>
                 /\ BodyValid(req[r]) => resp[r] = DbDown
                 /\ ~BodyValid(req[r]) => resp[r].status = Unprocessable

\* C7 witness: with the datastore unavailable, a PlaceBet with a malformed user
\* id and no selections has been answered 500.
C7_Witness ==
    \E r \in Reqs :
        /\ ~dbUp
        /\ Responded(r, "place_bet")
        /\ req[r].user_id = MalformedId
        /\ req[r].selections = <<>>
        /\ resp[r].status = ServerError

\* C8: with startups run one after another, once a startup has finished the
\* Match collection holds exactly the three samples (two football, one
\* basketball) when the datastore is available and nothing when it is not;
\* a startup that finds matches inserts none.
C8_SeedOnce ==
    /\ Len(match) <= 3
    /\ ~dbUp => match = <<>>
    /\ (dbUp /\ Serving /\ \A p \in Procs : ~ProcBusy(p)) =>
          /\ Len(match) = 3
          /\ Cardinality({i \in DOMAIN match : match[i].sport = "football"}) = 2
          /\ Cardinality({i \in DOMAIN match : match[i].sport = "basketball"}) = 1
          /\ \A i \in DOMAIN match : match[i].status = "scheduled"

\* C8 witness: a second startup has finished against the seeded collection.
C8_Witness ==
    /\ dbUp
    /\ Cardinality({p \in Procs : ProcDone(p)}) >= 2
    /\ Len(match) = 3

\* C9: the stored balance of a user is always 0 (as registered) or the
\* new_balance some top-up or bet of that user computed from the balance it had
\* read: the last writer wins, and what another request wrote in between is
\* lost.
C9_LastWriterWins ==
    \A uid \in DOMAIN user :
        \/ user[uid].balance = 0
        \/ \E i \in DOMAIN wallettransaction :
              /\ wallettransaction[i].user_id = uid
              /\ wallettransaction[i].balance_after = user[uid].balance
        \/ \E r \in Reqs :
              /\ Wrote(r)
              /\ req[r].user_id = uid
              /\ loc[r].new_balance = user[uid].balance

\* C9 witness: two top-ups of one user have both succeeded, nothing is under
\* way for the user, and the stored balance is not the sum of the two amounts
\* (one top-up is lost).
C9_Witness ==
    \E uid \in DOMAIN user :
        LET rows == RowsOf(wallettransaction, uid)
        IN /\ Quiet(uid)
           /\ Len(rows) = 2
           /\ OnlyTopups(rows)
           /\ rows[1].balance_after = rows[2].balance_after - rows[2].amount + rows[1].amount
           /\ user[uid].balance # rows[1].amount + rows[2].amount

\* C10: every stored balance is >= 0, however requests interleave.
C10_BalanceNonNegative ==
    \A uid \in DOMAIN user : user[uid].balance >= 0

\* C10 witness: a bet of the whole balance has gone through.
C10_Witness ==
    \E r \in Reqs :
        /\ Responded(r, "place_bet")
        /\ resp[r].status = OK
        /\ req[r].stake >= Cent
        /\ user[req[r].user_id].balance = 0

====
